---- MODULE Spec2Model ----
(***************************************************************************)
(* Model of ava.py: the per-device configuration (replace_serial,          *)
(* AvaConfig) and the control flow of main.                                *)
(*                                                                         *)
(* Python objects are kept in a heap so that aliasing is visible:          *)
(*   heap.objs  : the attribute objects (argparse Namespace, AvaConfig),   *)
(*   heap.lists : the list objects; an infile_list attribute holds a       *)
(*                reference into heap.lists, NoneRef standing for None.    *)
(* The collaborators that are not part of ava.py (the device enumeration,  *)
(* the registered test functions, the file system) are inputs drawn from   *)
(* small sets.                                                             *)
(***************************************************************************)
EXTENDS Integers, Sequences, FiniteSets, TLC

VARIABLES heap, options0, devices, ava_configs, idx, invoked, outcomes,
          dest, write_log, stdout, pc, exit_status, error, mutated

vars == <<heap, options0, devices, ava_configs, idx, invoked, outcomes,
          dest, write_log, stdout, pc, exit_status, error, mutated>>

----------------------------------------------------------------------------
(* Bounds of the model *)

MaxDevices == 2
MaxSub == 2
MaxConfigs == 2
MaxListLen == 3

----------------------------------------------------------------------------
(* Values *)

None == "<None>"
NoneRef == 0
options == 1

TEST_INPUT_MP4 == "johnny.1280x720.60fps.264.mp4"

\* ava_tests.AVA_TESTS, the names in the registry's order
AVA_TESTS == <<"ping", "pong">>

Registered(name) == \E k \in 1..Len(AVA_TESTS) : AVA_TESTS[k] = name

Serials == {"A", "B", "C"}

RECURSIVE SeqsUpTo(_, _)
SeqsUpTo(S, n) ==
  IF n = 0 THEN {<<>>}
  ELSE LET shorter == SeqsUpTo(S, n - 1)
       IN shorter \cup {Append(s, x) : s \in {t \in shorter : Len(t) = n - 1}, x \in S}

NoRepeat(s) == \A a, b \in 1..Len(s) : a # b => s[a] # s[b]

\* what ava_common.get_all_serials can return: an ordered list of distinct serials
DeviceLists == {s \in SeqsUpTo(Serials, MaxDevices) : NoRepeat(s)}

\* the destinations: a regular file, a path that cannot be opened, the stdout stream
STDOUT_PATH == "/dev/fd/1"
RegularPath == "out.json"
UnwritablePath == "/nonexistent/out.json"

Writable(path) == path # UnwritablePath

----------------------------------------------------------------------------
(* The outcomes a registered test function can return: a dict with the key *)
(* retcode and, optionally, the keys backtrace and results.                *)

SubResults == {[retcode |-> 0, name |-> "s0"],
               [retcode |-> 1, name |-> "s1"],
               [retcode |-> -1, name |-> "s2"]}

ResultLists == SeqsUpTo(SubResults, MaxSub)

FatalOutcomes ==
  {[retcode |-> -1]} \cup
  {[retcode |-> -1, backtrace |-> "boom"]} \cup
  {[retcode |-> -1, results |-> rs] : rs \in ResultLists} \cup
  {[retcode |-> -1, backtrace |-> "boom", results |-> rs] : rs \in ResultLists}

NonFatalOutcomes ==
  {[retcode |-> 0], [retcode |-> 1],
   [retcode |-> 1, backtrace |-> "soft", results |-> <<[retcode |-> 1, name |-> "s1"]>>]}

Outcomes == FatalOutcomes \cup NonFatalOutcomes

HasKey(d, k) == k \in DOMAIN d

DictGet(d, k, default) == IF HasKey(d, k) THEN d[k] ELSE default

----------------------------------------------------------------------------
(* Conversions to text, as sequences of tokens *)

IntToStr(n) ==
  CASE n = -1 -> "-1"
    [] n = 0 -> "0"
    [] n = 1 -> "1"
    [] OTHER -> "?"

RECURSIVE Joined(_, _)
\* the documents of docs, separated by sep
Joined(docs, sep) ==
  IF docs = <<>> THEN <<>>
  ELSE IF Len(docs) = 1 THEN docs[1]
  ELSE docs[1] \o <<sep>> \o Joined(Tail(docs), sep)

JsonSub(r) == <<"{", "\"retcode\"", ":", IntToStr(r.retcode), ",",
                "\"name\"", ":", "\"" \o r.name \o "\"", "}">>

\* json.dumps of an outcome (whitespace of indent=4 left out)
JsonDumps(d) ==
  <<"{", "\"retcode\"", ":", IntToStr(d.retcode)>>
  \o (IF HasKey(d, "backtrace")
      THEN <<",", "\"backtrace\"", ":", "\"" \o d.backtrace \o "\"">> ELSE <<>>)
  \o (IF HasKey(d, "results")
      THEN <<",", "\"results\"", ":", "[">>
           \o Joined([k \in 1..Len(d.results) |-> JsonSub(d.results[k])], ",")
           \o <<"]">>
      ELSE <<>>)
  \o <<"}">>

PyReprSub(r) == <<"{", "'retcode'", ":", IntToStr(r.retcode), ",",
                  "'name'", ":", "'" \o r.name \o "'", "}">>

\* repr of an outcome, what print(results_dict) shows
PyRepr(d) ==
  <<"{", "'retcode'", ":", IntToStr(d.retcode)>>
  \o (IF HasKey(d, "backtrace")
      THEN <<",", "'backtrace'", ":", "'" \o d.backtrace \o "'">> ELSE <<>>)
  \o (IF HasKey(d, "results")
      THEN <<",", "'results'", ":", "[">>
           \o Joined([k \in 1..Len(d.results) |-> PyReprSub(d.results[k])], ",")
           \o <<"]">>
      ELSE <<>>)
  \o <<"}">>

----------------------------------------------------------------------------
(* ConfigBuilder: replace_serial and AvaConfig                             *)

\* ava_common.get_android_serial: the given serial, else the environment's
EnvSerial == "ENV"
get_android_serial(serial) == IF serial = None THEN EnvSerial ELSE serial

\* copy.copy in place of copy.deepcopy: a new object that shares the list
deepcopy_shallow(h, ref) ==
  [heap |-> [h EXCEPT !.objs = Append(@, h.objs[ref])],
   ref |-> Len(h.objs) + 1]

\* copy.deepcopy of a Namespace: a new object, and a new list for its list
deepcopy(h, ref) ==
  LET o == h.objs[ref]
  IN IF o.infile_list = NoneRef
     THEN [heap |-> [h EXCEPT !.objs = Append(@, o)],
           ref |-> Len(h.objs) + 1]
     ELSE [heap |-> [objs |-> Append(h.objs, [o EXCEPT !.infile_list = Len(h.lists) + 1]),
                     lists |-> Append(h.lists, h.lists[o.infile_list])],
           ref |-> Len(h.objs) + 1]

replace_serial(h, ref, serial) ==
  LET c == deepcopy(h, ref)
  IN [heap |-> [c.heap EXCEPT !.objs[c.ref].android_serial = serial],
      ref |-> c.ref]

\* AvaConfig.__init__
AvaConfig(h, ref) ==
  LET o == h.objs[ref]
      isNone == o.infile_list = NoneRef
      lists_ == IF isNone THEN Append(h.lists, <<TEST_INPUT_MP4>>) ELSE h.lists
      self == [debug |-> o.debug,
               dry_run |-> o.dry_run,
               android_serial |-> get_android_serial(o.android_serial),
               encoder |-> o.encoder,
               test |-> o.test,
               infile_list |-> IF isNone THEN Len(h.lists) + 1 ELSE o.infile_list,
               outfile |-> o.outfile]
  IN [heap |-> [objs |-> Append(h.objs, self), lists |-> lists_],
      ref |-> Len(h.objs) + 1]

\* AvaConfig(replace_serial(options, serial)), one element of line 195
BuildOne(h, serial) ==
  LET r == replace_serial(h, options, serial)
  IN AvaConfig(r.heap, r.ref)

\* the value of an infile_list attribute: None, or the items of the list
InfileValue(h, o) ==
  IF o.infile_list = NoneRef THEN [none |-> TRUE, items |-> <<>>]
  ELSE [none |-> FALSE, items |-> h.lists[o.infile_list]]

\* the value of the base options, with its list by content
Snapshot(h) == [obj |-> h.objs[options], infile |-> InfileValue(h, h.objs[options])]

----------------------------------------------------------------------------
(* Initial states: the options get_options returns                         *)

OptionValues(debugs, dry_runs, encoders, tests, test_lists, outfiles) ==
  [debug : debugs, dry_run : dry_runs, android_serial : {None},
   encoder : encoders, test : tests, test_list : test_lists,
   infile_list : {NoneRef, 1}, outfile : outfiles]

InfileLists == {<<"a.mp4">>, <<"a.mp4", "b.mp4">>}

InitWith(opts, start) ==
  /\ \E o \in opts, l \in InfileLists :
       /\ heap = [objs |-> <<o>>,
                  lists |-> IF o.infile_list = NoneRef THEN <<>> ELSE <<l>>]
       /\ options0 = [obj |-> o,
                      infile |-> IF o.infile_list = NoneRef
                                 THEN [none |-> TRUE, items |-> <<>>]
                                 ELSE [none |-> FALSE, items |-> l]]
       /\ (o.infile_list = NoneRef => l = <<"a.mp4">>)
  /\ devices = <<>>
  /\ ava_configs = <<>>
  /\ idx = 1
  /\ invoked = <<>>
  /\ outcomes = <<>>
  /\ dest = <<>>
  /\ write_log = <<>>
  /\ stdout = <<>>
  /\ pc = start
  /\ exit_status = <<>>
  /\ error = None
  /\ mutated = {}

Init ==
  InitWith(OptionValues({0, 1}, {FALSE}, {None}, {None, "ping", "nope"}, BOOLEAN,
                        {None, "-", RegularPath, UnwritablePath}), "start")

----------------------------------------------------------------------------
(* main                                                                    *)

Options == heap.objs[options]

\* the outcome of the invocation being inspected
results_dict == outcomes[Len(outcomes)]

\* the process ends with this status; an exit status is one byte
Exit(code, err) ==
  /\ pc' = "done"
  /\ exit_status' = <<code % 256>>
  /\ error' = err

\* the loop of lines 211-213 without the test of line 212
PrintFailing_all(all_results) ==
  [k \in 1..Len(all_results) |-> <<"print">> \o PyReprSub(all_results[k])]

\* for result in all_results: if result["retcode"] != 0: print(result)
RECURSIVE PrintFailing(_)
PrintFailing(all_results) ==
  IF all_results = <<>> THEN <<>>
  ELSE (IF Head(all_results).retcode # 0
        THEN <<<<"print">> \o PyReprSub(Head(all_results))>> ELSE <<>>)
       \o PrintFailing(Tail(all_results))

\* lines 207-215: what main prints for an outcome with retcode -1
FatalReport(d) ==
  <<<<"backtrace=", "'" \o DictGet(d, "backtrace", "No backtrace") \o "'">>>>
  \o (IF HasKey(d, "results")
      THEN PrintFailing(d.results)
      ELSE <<<<"print">> \o PyRepr(d)>>)

\* open(outfile, "w") followed by fd.write: a regular file is truncated,
\* the stdout stream is appended to
WriteFile(content, path, doc) ==
  IF path = STDOUT_PATH THEN Append(content, doc) ELSE <<doc>>

\* lines 178-183: --test-list
ListTests ==
  /\ pc = "start"
  /\ Options.test_list
  /\ stdout' = stdout \o <<<<"list of available tests">>>>
                      \o [k \in 1..Len(AVA_TESTS) |-> <<"*", AVA_TESTS[k]>>]
  /\ Exit(0, None)
  /\ UNCHANGED <<heap, options0, devices, ava_configs, idx, invoked, outcomes,
                 dest, write_log, mutated>>

\* lines 184-193: the outfile default, the debug print, the device enumeration
Setup ==
  /\ pc = "start"
  /\ ~Options.test_list
  /\ \E devs \in DeviceLists :
       /\ devices' = devs
       /\ heap' = [heap EXCEPT !.objs[options].outfile =
                     IF @ = None \/ @ = "-" THEN STDOUT_PATH ELSE @]
       /\ stdout' = stdout
                    \o (IF Options.debug > 0 THEN <<<<"debug:", "options">>>> ELSE <<>>)
                    \o (IF Len(devs) = 0 THEN <<<<"No connected devices">>>> ELSE <<>>)
       /\ pc' = IF Len(devs) = 0 THEN "check" ELSE "configs"
  /\ UNCHANGED <<options0, ava_configs, idx, invoked, outcomes, dest, write_log,
                 exit_status, error, mutated>>

\* line 195 building the config of the first device only
BuildConfig_only_first ==
  /\ pc = "configs"
  /\ Len(ava_configs) < Len(devices)
  /\ LET r == BuildOne(heap, devices[Len(ava_configs) + 1])
     IN /\ heap' = r.heap
        /\ ava_configs' = Append(ava_configs, r.ref)
        /\ pc' = "check"
  /\ UNCHANGED <<options0, devices, idx, invoked, outcomes, dest, write_log, stdout,
                 exit_status, error, mutated>>

\* line 195: the next element of the list comprehension
BuildConfig ==
  /\ pc = "configs"
  /\ Len(ava_configs) < Len(devices)
  /\ LET r == BuildOne(heap, devices[Len(ava_configs) + 1])
     IN /\ heap' = r.heap
        /\ ava_configs' = Append(ava_configs, r.ref)
        /\ pc' = IF Len(ava_configs) + 1 = Len(devices) THEN "check" ELSE "configs"
  /\ UNCHANGED <<options0, devices, idx, invoked, outcomes, dest, write_log, stdout,
                 exit_status, error, mutated>>

\* line 197 false: no test selected, main returns
NoTestSelected ==
  /\ pc = "check"
  /\ Options.test = None
  /\ Exit(0, None)
  /\ UNCHANGED <<heap, options0, devices, ava_configs, idx, invoked, outcomes,
                 dest, write_log, stdout, mutated>>

\* lines 199-201 with the assert left out
UnknownTest_ignored ==
  /\ pc = "check"
  /\ Options.test # None
  /\ ~Registered(Options.test)
  /\ pc' = "loop"
  /\ UNCHANGED <<heap, options0, devices, ava_configs, idx, invoked, outcomes,
                 dest, write_log, stdout, exit_status, error, mutated>>

\* lines 199-201: the assert fails
UnknownTest ==
  /\ pc = "check"
  /\ Options.test # None
  /\ ~Registered(Options.test)
  /\ Exit(1, "AssertionError")
  /\ UNCHANGED <<heap, options0, devices, ava_configs, idx, invoked, outcomes,
                 dest, write_log, stdout, mutated>>

\* lines 199-203: the assert passes, the loop starts
EnsureTestExists ==
  /\ pc = "check"
  /\ Options.test # None
  /\ Registered(Options.test)
  /\ pc' = "loop"
  /\ UNCHANGED <<heap, options0, devices, ava_configs, idx, invoked, outcomes,
                 dest, write_log, stdout, exit_status, error, mutated>>

\* lines 203-205: the test function is called with the next config
RunTest ==
  /\ pc = "loop"
  /\ idx <= Len(ava_configs)
  /\ \E d \in Outcomes :
       /\ outcomes' = Append(outcomes, d)
       /\ invoked' = Append(invoked, heap.objs[ava_configs[idx]].android_serial)
  /\ stdout' = Append(stdout, <<"Run test:", Options.test>>)
  /\ pc' = "inspect"
  /\ UNCHANGED <<heap, options0, devices, ava_configs, idx, dest, write_log,
                 exit_status, error, mutated>>

\* lines 206-217 without the sys.exit of line 217
Fatal_continues ==
  /\ pc = "inspect"
  /\ results_dict.retcode = -1
  /\ stdout' = stdout \o FatalReport(results_dict)
  /\ idx' = idx + 1
  /\ pc' = "loop"
  /\ UNCHANGED <<heap, options0, devices, ava_configs, invoked, outcomes,
                 dest, write_log, exit_status, error, mutated>>

\* lines 206-217: retcode -1
Fatal ==
  /\ pc = "inspect"
  /\ results_dict.retcode = -1
  /\ stdout' = stdout \o FatalReport(results_dict)
  /\ Exit(-1, "SystemExit")
  /\ UNCHANGED <<heap, options0, devices, ava_configs, idx, invoked, outcomes,
                 dest, write_log, mutated>>

\* lines 218-221 leaving the loop after an outcome with a nonzero retcode
WriteResults_stops_on_failure ==
  /\ pc = "inspect"
  /\ results_dict.retcode # -1
  /\ Writable(Options.outfile)
  /\ LET results_json == JsonDumps(results_dict)
     IN /\ dest' = WriteFile(dest, Options.outfile, results_json)
        /\ write_log' = Append(write_log, results_json)
  /\ IF results_dict.retcode # 0
     THEN Exit(0, None) /\ idx' = idx
     ELSE idx' = idx + 1 /\ pc' = "loop" /\ UNCHANGED <<exit_status, error>>
  /\ UNCHANGED <<heap, options0, devices, ava_configs, invoked, outcomes, stdout,
                 mutated>>

\* lines 218-221: the outcome is written to the outfile
WriteResults ==
  /\ pc = "inspect"
  /\ results_dict.retcode # -1
  /\ Writable(Options.outfile)
  /\ LET results_json == JsonDumps(results_dict)
     IN /\ dest' = WriteFile(dest, Options.outfile, results_json)
        /\ write_log' = Append(write_log, results_json)
  /\ idx' = idx + 1
  /\ pc' = "loop"
  /\ UNCHANGED <<heap, options0, devices, ava_configs, invoked, outcomes, stdout,
                 exit_status, error, mutated>>

\* line 220: open raises OSError, which nothing catches
WriteError ==
  /\ pc = "inspect"
  /\ results_dict.retcode # -1
  /\ ~Writable(Options.outfile)
  /\ Exit(1, "OSError")
  /\ UNCHANGED <<heap, options0, devices, ava_configs, idx, invoked, outcomes,
                 dest, write_log, stdout, mutated>>

\* line 203: the loop is exhausted, main returns
Return ==
  /\ pc = "loop"
  /\ idx > Len(ava_configs)
  /\ Exit(0, None)
  /\ UNCHANGED <<heap, options0, devices, ava_configs, idx, invoked, outcomes,
                 dest, write_log, stdout, mutated>>

Next ==
  \/ ListTests
  \/ Setup
  \/ BuildConfig
  \/ NoTestSelected
  \/ UnknownTest
  \/ EnsureTestExists
  \/ RunTest
  \/ Fatal
  \/ WriteResults
  \/ WriteError
  \/ Return

Spec == Init /\ [][Next]_vars

----------------------------------------------------------------------------
(* The configuration builder on its own: configs are built from one base   *)
(* options value for arbitrary serials, and the list of a config is        *)
(* appended to afterwards, as a test function holding the config may do.   *)

CfgInit ==
  InitWith(OptionValues({0, 1}, BOOLEAN, {None, "h264"}, {None, "ping"}, {FALSE},
                        {None, RegularPath}), "cfg")

\* AvaConfig(replace_serial(options, serial)) for a serial
CfgBuild ==
  /\ pc = "cfg"
  /\ Len(ava_configs) < MaxConfigs
  /\ \E serial \in Serials :
       LET r == BuildOne(heap, serial)
       IN /\ heap' = r.heap
          /\ ava_configs' = Append(ava_configs, r.ref)
  /\ UNCHANGED <<options0, devices, idx, invoked, outcomes, dest, write_log, stdout,
                 pc, exit_status, error, mutated>>

\* config.infile_list.append(item) on one of the configs
CfgMutate ==
  /\ pc = "cfg"
  /\ \E i \in 1..Len(ava_configs) :
       LET l == heap.objs[ava_configs[i]].infile_list
       IN /\ l # NoneRef
          /\ Len(heap.lists[l]) < MaxListLen
          /\ heap' = [heap EXCEPT !.lists[l] = Append(@, "x.mp4")]
          /\ mutated' = mutated \cup {i}
  /\ UNCHANGED <<options0, devices, ava_configs, idx, invoked, outcomes, dest,
                 write_log, stdout, pc, exit_status, error>>

CfgNext ==
  \/ CfgBuild
  \/ CfgMutate

SpecCfg == CfgInit /\ [][CfgNext]_vars

----------------------------------------------------------------------------
(* Vocabulary of the properties                                            *)

Done == pc = "done"

NumDevices == Len(devices)

\* a run of a registered test (not the --test-list mode)
TestSelected ==
  /\ ~Options.test_list
  /\ Options.test \in {AVA_TESTS[k] : k \in 1..Len(AVA_TESTS)}

\* a test name is given and the registry does not have it
UnknownSelected ==
  /\ ~Options.test_list
  /\ Options.test # None
  /\ Options.test \notin {AVA_TESTS[k] : k \in 1..Len(AVA_TESTS)}

DestWritable == Options.outfile # UnwritablePath

FatalAt(i) == outcomes[i].retcode = -1

SoftAt(i) == outcomes[i].retcode # 0 /\ outcomes[i].retcode # -1

NoFatal == \A i \in 1..Len(outcomes) : ~FatalAt(i)

Cfg(i) == heap.objs[ava_configs[i]]

SameScalarFields(c, o) ==
  /\ c.debug = o.debug
  /\ c.dry_run = o.dry_run
  /\ c.encoder = o.encoder
  /\ c.test = o.test
  /\ c.outfile = o.outfile

\* the lines main printed after its last "Run test:" line
LastReport ==
  LET runs == {k \in 1..Len(stdout) : stdout[k][1] = "Run test:"}
      last == CHOOSE k \in runs : \A m \in runs : m <= k
  IN SubSeq(stdout, last + 1, Len(stdout))

----------------------------------------------------------------------------
(* C1: when main finishes a run of a registered test over N >= 1 devices   *)
(* in which no outcome has retcode -1, the destination holds exactly the N *)
(* outcomes, one per device, in enumeration order.                         *)
Cx_C1_DestinationHoldsAllOutcomes ==
  (Done /\ TestSelected /\ DestWritable /\ NumDevices >= 1 /\ NoFatal)
    => /\ Len(outcomes) = NumDevices
       /\ dest = [i \in 1..NumDevices |-> JsonDumps(outcomes[i])]

(* C2: once the invocation for device i has returned retcode -1, the test  *)
(* is invoked for no later device, and the only way on is the termination  *)
(* of the process with a nonzero exit status.                              *)
Thm_C2_FatalStopsInvocations ==
  \A i \in 1..Len(outcomes) :
    FatalAt(i) =>
      /\ Len(invoked) = i
      /\ Len(outcomes) = i
      /\ \/ pc = "inspect"
         \/ Done /\ exit_status # <<>> /\ exit_status # <<0>>

Wit_C2_FatalOnFirstOfTwo ==
  /\ Done
  /\ NumDevices = 2
  /\ Len(outcomes) = 1
  /\ FatalAt(1)
  /\ invoked = <<devices[1]>>
  /\ exit_status = <<255>>

(* C3, as claimed: the config for device i+1 is built only after the       *)
(* invocation for device i has returned an outcome that is not fatal.      *)
Cx_C3_ConfigBuiltAfterPreviousOutcome ==
  \A k \in 2..Len(ava_configs) :
    /\ Len(outcomes) >= k - 1
    /\ ~FatalAt(k - 1)

(* C3, amended: a retcode -1 for device i halts the run before the test is *)
(* invoked for device i+1; the configs of all devices, that of device i+1  *)
(* included, exist before the first invocation and none is built later.    *)
Thm_C3_FatalHaltsConfigsBuiltUpFront ==
  /\ Len(ava_configs) <= NumDevices
  /\ (Len(invoked) > 0 \/ pc \in {"loop", "inspect"}) => Len(ava_configs) = NumDevices
  /\ \A i \in 1..Len(outcomes) :
       FatalAt(i) => Len(invoked) = i /\ pc \in {"inspect", "done"}

Wit_C3_FatalWithLaterConfigBuilt ==
  /\ Done
  /\ NumDevices = 2
  /\ Len(ava_configs) = 2
  /\ Len(invoked) = 1
  /\ FatalAt(1)
  /\ Cfg(2).android_serial = devices[2]

(* C4, as claimed: with a test name that is not in the registry the run    *)
(* fails and nothing per device happens before the check: no config is     *)
(* built, the test is never invoked, nothing is written.                   *)
Cx_C4_UnknownTestBeforeAnyDeviceStep ==
  UnknownSelected =>
    /\ Len(ava_configs) = 0
    /\ Len(invoked) = 0
    /\ Len(outcomes) = 0
    /\ write_log = <<>>
    /\ Done => exit_status # <<0>>

(* C4, amended: with a test name that is not in the registry the run fails *)
(* with a nonzero exit status, the test is never invoked, no outcome is    *)
(* produced and nothing is written; the check comes after the device       *)
(* enumeration and after the configs of all devices have been built.       *)
Thm_C4_UnknownTestFailsAfterConfigs ==
  UnknownSelected =>
    /\ Len(invoked) = 0
    /\ Len(outcomes) = 0
    /\ write_log = <<>>
    /\ dest = <<>>
    /\ pc \in {"start", "configs", "check", "done"}
    /\ Done => /\ exit_status = <<1>>
               /\ error = "AssertionError"
               /\ Len(ava_configs) = NumDevices

Wit_C4_UnknownTestTwoConfigs ==
  /\ Done
  /\ UnknownSelected
  /\ NumDevices = 2
  /\ Len(ava_configs) = 2
  /\ exit_status = <<1>>

Cx_C6_EmptyResultSerialized ==
  (Done /\ TestSelected /\ DestWritable /\ NumDevices = 0) =>
    /\ \E k \in 1..Len(stdout) : stdout[k] = <<"No connected devices">>
    /\ Len(ava_configs) = 0
    /\ Len(invoked) = 0
    /\ exit_status = <<0>>
    /\ Len(write_log) = 1
    /\ dest = <<<<"[", "]">>>>

(* C7, as claimed: every config agrees with the base options on every      *)
(* field but the serial, the base options stay as they were, and appending *)
(* to the infile_list of one config changes neither another config nor the *)
(* base options.                                                           *)
Cx_C7_ConfigsEqualBaseOnAllFields ==
  pc = "cfg" =>
    /\ Snapshot(heap) = options0
    /\ \A i \in 1..Len(ava_configs) :
         /\ SameScalarFields(Cfg(i), options0.obj)
         /\ i \notin mutated => InfileValue(heap, Cfg(i)) = options0.infile

(* C7, amended: the configs agree with each other on every field but the   *)
(* serial and with the base options on debug, dry_run, encoder, test and   *)
(* outfile; their infile_list equals that of the base options when it is   *)
(* set and is the one-element default list when it is None; the base       *)
(* options stay as they were, and appending to the infile_list of one      *)
(* config changes neither another config nor the base options.             *)
Thm_C7_ConfigsIndependent ==
  pc = "cfg" =>
    /\ Snapshot(heap) = options0
    /\ \A i \in 1..Len(ava_configs) :
         /\ SameScalarFields(Cfg(i), options0.obj)
         /\ i \notin mutated =>
              InfileValue(heap, Cfg(i)) =
                IF options0.infile.none
                THEN [none |-> FALSE, items |-> <<TEST_INPUT_MP4>>]
                ELSE options0.infile
    /\ \A i, j \in 1..Len(ava_configs) :
         (i \notin mutated /\ j \notin mutated) =>
           InfileValue(heap, Cfg(i)) = InfileValue(heap, Cfg(j))

Wit_C7_OneOfTwoMutated ==
  /\ pc = "cfg"
  /\ Len(ava_configs) = 2
  /\ Cfg(1).android_serial # Cfg(2).android_serial
  /\ mutated = {1}
  /\ ~options0.infile.none
  /\ InfileValue(heap, Cfg(1)) # InfileValue(heap, Cfg(2))

(* C8: the destination is written only once the loop over the devices has  *)
(* finished without a retcode -1; in a run with a retcode -1 it is never   *)
(* written.                                                                *)
Cx_C8_WrittenOnlyAfterLoop ==
  write_log # <<>> =>
    /\ Len(outcomes) = NumDevices
    /\ NoFatal

(* C9: with a registered test and a destination that cannot be opened, the *)
(* run ends with the I/O error and a nonzero exit status, and the error is *)
(* raised before the first or after the last invocation of the run.        *)
Cx_C9_IOErrorOutsideLoop ==
  (TestSelected /\ ~DestWritable) =>
    /\ Done => exit_status # <<0>> /\ error = "OSError"
    /\ error = "OSError" => Len(invoked) \in {0, NumDevices}

(* C10: for an outcome with retcode -1 main prints the backtrace, or "No   *)
(* backtrace" when the outcome has none, and then, when the outcome has a  *)
(* results list, exactly its sub-results with a nonzero retcode, in the    *)
(* order of the list.                                                      *)
Thm_C10_FatalReport ==
  (Done /\ error = "SystemExit") =>
    LET d == results_dict
        report == LastReport
        shown == IF HasKey(d, "backtrace") THEN d.backtrace ELSE "No backtrace"
    IN /\ Len(report) >= 1
       /\ report[1] = <<"backtrace=", "'" \o shown \o "'">>
       /\ HasKey(d, "results") =>
            LET failing == SelectSeq(d.results, LAMBDA r : r.retcode # 0)
            IN Tail(report) = [k \in 1..Len(failing) |-> <<"print">> \o PyReprSub(failing[k])]

Wit_C10_MixedSubResultsNoBacktrace ==
  /\ Done
  /\ error = "SystemExit"
  /\ ~HasKey(results_dict, "backtrace")
  /\ HasKey(results_dict, "results")
  /\ Len(results_dict.results) = 2
  /\ results_dict.results[1].retcode = 0
  /\ results_dict.results[2].retcode # 0
  /\ Len(LastReport) = 2

====
